---- MODULE Spec2Model ----
(***************************************************************************)
(* UV-atlas packing of mcblend (operator_func/uv.py): UvBox, UvMcCube,     *)
(* plan_uv and get_uv_mc_cubes.                                            *)
(*                                                                         *)
(* Objects are kept in a heap (a sequence of UvMcCube records); a          *)
(* reference to a UvMcCube is its index in the heap, so that two names     *)
(* holding the same reference share one placement.  An absent optional     *)
(* value (Python None, a missing custom property) is the empty tuple, a    *)
(* present scalar x is <<x>>, a present position is <<u, v>>.              *)
(***************************************************************************)
EXTENDS Integers, Sequences, FiniteSets, TLC

\* ------------------------------------------------------------- bounds
MaxWeight == 10      \* the objects handed to get_uv_mc_cubes weigh at most this
MaxTexWidth == 11    \* the texture widths handed to plan_uv are 3..MaxTexWidth
MaxTexHeight == 3    \* the texture heights are None and 2..MaxTexHeight
MaxCalls == 2        \* plan_uv calls made on one result of get_uv_mc_cubes
MaxSide == 2         \* a box made on its own has sides and dimensions 1..MaxSide
MaxPos == 3          \* and is unplaced or placed at (u, v) in 0..MaxPos

None == << >>

\* ------------------------------------------------------------- UvCorner
TOP_RIGHT == "TOP_RIGHT"
TOP_LEFT == "TOP_LEFT"
BOTTOM_RIGHT == "BOTTOM_RIGHT"
BOTTOM_LEFT == "BOTTOM_LEFT"

\* ------------------------------------------------------------- UvBox
\* UvBox.__init__ that puts a box made without a position at (1, 1)
UvBox_unplaced_off_origin(size, uv) ==
    IF uv = None
    THEN [size |-> size, uv |-> <<1, 1>>, is_mapped |-> FALSE]
    ELSE [size |-> size, uv |-> uv, is_mapped |-> TRUE]

\* UvBox.__init__
UvBox(size, uv) ==
    IF uv = None
    THEN [size |-> size, uv |-> <<0, 0>>, is_mapped |-> FALSE]
    ELSE [size |-> size, uv |-> uv, is_mapped |-> TRUE]

\* UvBox.collides with <= for <: rectangles that touch collide
UvBox_collides_touching(self, other) ==
    /\ self.uv[1] <= other.uv[1] + other.size[1]
    /\ other.uv[1] <= self.uv[1] + self.size[1]
    /\ self.uv[2] <= other.uv[2] + other.size[2]
    /\ other.uv[2] <= self.uv[2] + self.size[2]

\* UvBox.collides with the test of the v axis left out
UvBox_collides_u_only(self, other) ==
    /\ self.uv[1] < other.uv[1] + other.size[1]
    /\ other.uv[1] < self.uv[1] + self.size[1]

\* UvBox.collides: reads only uv and size of both boxes
UvBox_collides(self, other) ==
    LET self_x == <<self.uv[1], self.uv[1] + self.size[1]>>
        self_y == <<self.uv[2], self.uv[2] + self.size[2]>>
        other_x == <<other.uv[1], other.uv[1] + other.size[1]>>
        other_y == <<other.uv[2], other.uv[2] + other.size[2]>>
    IN  /\ self_x[1] < other_x[2]
        /\ other_x[1] < self_x[2]
        /\ self_y[1] < other_y[2]
        /\ other_y[1] < self_y[2]

\* UvBox.suggest_positions with the points on the border of the rectangle,
\* not one cell outside it
UvBox_suggest_positions_inside(self) ==
    LET ss == <<self.size[1] - 1, self.size[2] - 1>>
        uv == self.uv
    IN  << <<(<<uv[1], uv[2]>>), BOTTOM_LEFT>>,
           <<(<<uv[1] + ss[1], uv[2]>>), BOTTOM_RIGHT>>,
           <<(<<uv[1] + ss[1], uv[2]>>), TOP_LEFT>>,
           <<(<<uv[1] + ss[1], uv[2] + ss[2]>>), BOTTOM_LEFT>>,
           <<(<<uv[1] + ss[1], uv[2] + ss[2]>>), TOP_RIGHT>>,
           <<(<<uv[1], uv[2] + ss[2]>>), TOP_LEFT>>,
           <<(<<uv[1], uv[2] + ss[2]>>), BOTTOM_RIGHT>>,
           <<(<<uv[1], uv[2]>>), TOP_RIGHT>> >>

\* UvBox.suggest_positions with right bottom listed before right top
UvBox_suggest_positions_swapped(self) ==
    LET ss == <<self.size[1] - 1, self.size[2] - 1>>
        uv == self.uv
    IN  << <<(<<uv[1], uv[2] - 1>>), BOTTOM_LEFT>>,
           <<(<<uv[1] + ss[1], uv[2] - 1>>), BOTTOM_RIGHT>>,
           <<(<<uv[1] + ss[1] + 1, uv[2] + ss[2]>>), BOTTOM_LEFT>>,
           <<(<<uv[1] + ss[1] + 1, uv[2]>>), TOP_LEFT>>,
           <<(<<uv[1] + ss[1], uv[2] + ss[2] + 1>>), TOP_RIGHT>>,
           <<(<<uv[1], uv[2] + ss[2] + 1>>), TOP_LEFT>>,
           <<(<<uv[1] - 1, uv[2] + ss[2]>>), BOTTOM_RIGHT>>,
           <<(<<uv[1] - 1, uv[2]>>), TOP_RIGHT>> >>

\* UvBox.suggest_positions
UvBox_suggest_positions(self) ==
    LET ss == <<self.size[1] - 1, self.size[2] - 1>>
        uv == self.uv
    IN  << <<(<<uv[1], uv[2] - 1>>), BOTTOM_LEFT>>,
           <<(<<uv[1] + ss[1], uv[2] - 1>>), BOTTOM_RIGHT>>,
           <<(<<uv[1] + ss[1] + 1, uv[2]>>), TOP_LEFT>>,
           <<(<<uv[1] + ss[1] + 1, uv[2] + ss[2]>>), BOTTOM_LEFT>>,
           <<(<<uv[1] + ss[1], uv[2] + ss[2] + 1>>), TOP_RIGHT>>,
           <<(<<uv[1], uv[2] + ss[2] + 1>>), TOP_LEFT>>,
           <<(<<uv[1] - 1, uv[2] + ss[2]>>), BOTTOM_RIGHT>>,
           <<(<<uv[1] - 1, uv[2]>>), TOP_RIGHT>> >>

\* UvBox.apply_suggestion with ss taken as the size, not the size minus one
apply_suggestion_uv_full_size(size, suggestion) ==
    LET ss == size
        p == suggestion[1]
    IN  CASE suggestion[2] = TOP_LEFT -> p
          [] suggestion[2] = TOP_RIGHT -> <<p[1] - ss[1], p[2]>>
          [] suggestion[2] = BOTTOM_LEFT -> <<p[1], p[2] - ss[2]>>
          [] suggestion[2] = BOTTOM_RIGHT -> <<p[1] - ss[1], p[2] - ss[2]>>

\* UvBox.apply_suggestion: the position it assigns to self.uv
apply_suggestion_uv(size, suggestion) ==
    LET ss == <<size[1] - 1, size[2] - 1>>
        p == suggestion[1]
    IN  CASE suggestion[2] = TOP_LEFT -> p
          [] suggestion[2] = TOP_RIGHT -> <<p[1] - ss[1], p[2]>>
          [] suggestion[2] = BOTTOM_LEFT -> <<p[1], p[2] - ss[2]>>
          [] suggestion[2] = BOTTOM_RIGHT -> <<p[1] - ss[1], p[2] - ss[2]>>

\* ------------------------------------------------------------- UvMcCube
\* the setter with the back face put after two widths instead of two depths
UvMcCube_set_uv_back_misplaced(self, uv) ==
    [self EXCEPT
        !.uv = uv,
        !.right.uv = <<uv[1], uv[2] + self.depth>>,
        !.front.uv = <<uv[1] + self.depth, uv[2] + self.depth>>,
        !.left.uv = <<uv[1] + self.depth + self.width, uv[2] + self.depth>>,
        !.back.uv = <<uv[1] + self.depth + 2 * self.width, uv[2] + self.depth>>,
        !.top.uv = <<uv[1] + self.depth, uv[2]>>,
        !.bottom.uv = <<uv[1] + self.depth + self.width, uv[2]>>]

\* UvMcCube.uv setter: the six faces follow the cube
UvMcCube_set_uv(self, uv) ==
    [self EXCEPT
        !.uv = uv,
        !.right.uv = <<uv[1], uv[2] + self.depth>>,
        !.front.uv = <<uv[1] + self.depth, uv[2] + self.depth>>,
        !.left.uv = <<uv[1] + self.depth + self.width, uv[2] + self.depth>>,
        !.back.uv = <<uv[1] + 2 * self.depth + self.width, uv[2] + self.depth>>,
        !.top.uv = <<uv[1] + self.depth, uv[2]>>,
        !.bottom.uv = <<uv[1] + self.depth + self.width, uv[2]>>]

\* UvMcCube.__init__: the faces are built first, then UvBox.__init__ sets
\* is_mapped and size and assigns uv through the setter above
UvMcCube(width, depth, height, uv) ==
    LET size == <<2 * depth + 2 * width, height + depth>>
        base == UvBox(size, uv)
        made == [width |-> width, depth |-> depth, height |-> height,
                 right |-> UvBox(<<depth, height>>, <<0, depth>>),
                 front |-> UvBox(<<width, height>>, <<depth, depth>>),
                 left |-> UvBox(<<depth, height>>, <<depth + width, depth>>),
                 back |-> UvBox(<<width, height>>, <<2 * depth + width, depth>>),
                 top |-> UvBox(<<width, depth>>, <<depth, 0>>),
                 bottom |-> UvBox(<<width, depth>>, <<depth + width, 0>>),
                 size |-> size, uv |-> <<0, 0>>, is_mapped |-> base.is_mapped]
    IN  UvMcCube_set_uv(made, base.uv)

\* the faces in the order UvMcCube.collides visits them
Faces(self) == <<self.right, self.front, self.left, self.back, self.top, self.bottom>>

\* UvMcCube.collides that leaves the top and the bottom face of self untested
UvMcCube_collides_side_faces(self, other) ==
    \E i \in 1..4 : UvBox_collides(Faces(self)[i], other)

\* UvMcCube.collides: a face of self against the rectangle (uv, size) of other
UvMcCube_collides(self, other) ==
    \E i \in 1..6 : UvBox_collides(Faces(self)[i], other)

\* the entries of s at the (0-based) indices keep, in order
Pick(s, keep) == <<s[keep[1] + 1], s[keep[2] + 1], s[keep[3] + 1]>>

\* UvMcCube.suggest_positions without the two suggestions below the cube
\* (under the right face and under the back face)
UvMcCube_suggest_positions_none_below(self) ==
    Pick(UvBox_suggest_positions(self.right), <<0, 0, 6>>)
    \o Pick(UvBox_suggest_positions(self.top), <<0, 6, 7>>)
    \o Pick(UvBox_suggest_positions(self.bottom), <<1, 2, 3>>)
    \o Pick(UvBox_suggest_positions(self.back), <<1, 3, 3>>)

\* UvMcCube.suggest_positions with the front face taken for the right face
UvMcCube_suggest_positions_front(self) ==
    Pick(UvBox_suggest_positions(self.front), <<0, 5, 6>>)
    \o Pick(UvBox_suggest_positions(self.top), <<0, 6, 7>>)
    \o Pick(UvBox_suggest_positions(self.bottom), <<1, 2, 3>>)
    \o Pick(UvBox_suggest_positions(self.back), <<1, 3, 4>>)

\* UvMcCube.suggest_positions
UvMcCube_suggest_positions(self) ==
    Pick(UvBox_suggest_positions(self.right), <<0, 5, 6>>)
    \o Pick(UvBox_suggest_positions(self.top), <<0, 6, 7>>)
    \o Pick(UvBox_suggest_positions(self.bottom), <<1, 2, 3>>)
    \o Pick(UvBox_suggest_positions(self.back), <<1, 3, 4>>)

\* apply_suggestion that assigns the position of the cube and leaves the faces
apply_suggestion_faces_stay(self, suggestion) ==
    [self EXCEPT !.uv = apply_suggestion_uv(self.size, suggestion)]

\* UvBox.apply_suggestion on a UvMcCube (inherited; assigns through the setter)
apply_suggestion(self, suggestion) ==
    UvMcCube_set_uv(self, apply_suggestion_uv(self.size, suggestion))

\* UvBox.apply_suggestion on a plain UvBox (assigns through UvBox's setter)
UvBox_apply_suggestion(self, suggestion) ==
    [self EXCEPT !.uv = apply_suggestion_uv(self.size, suggestion)]

\* the class of a box: a UvMcCube has a depth, a plain UvBox has none
IsUvMcCube(box) == "depth" \in DOMAIN box

\* box.collides(other), box.suggest_positions() and
\* box.apply_suggestion(suggestion) as Python dispatches them on the class
Box_collides(self, other) ==
    IF IsUvMcCube(self) THEN UvMcCube_collides(self, other)
    ELSE UvBox_collides(self, other)

Box_suggest_positions(self) ==
    IF IsUvMcCube(self) THEN UvMcCube_suggest_positions(self)
    ELSE UvBox_suggest_positions(self)

Box_apply_suggestion(self, suggestion) ==
    IF IsUvMcCube(self) THEN apply_suggestion(self, suggestion)
    ELSE UvBox_apply_suggestion(self, suggestion)

\* ------------------------------------------------------------- plan_uv
\* _is_out_of_bounds without the test against the max height
_is_out_of_bounds_no_height(uv, size, width, height) ==
    \/ uv[1] < 0
    \/ uv[2] < 0
    \/ uv[1] + size[1] > width

\* plan_uv._is_out_of_bounds (size defaults to (0, 0) at the call site)
_is_out_of_bounds(uv, size, width, height) ==
    \/ uv[1] < 0
    \/ uv[2] < 0
    \/ uv[1] + size[1] > width
    \/ (height # None /\ uv[2] + size[2] > height[1])

\* del s[i] that deletes nothing
Del_nothing(s, i) == s

\* del s[i] of Python for the 0-based index i
Del(s, i) == SubSeq(s, 1, i) \o SubSeq(s, i + 2, Len(s))

\* the elements of the sequence s
Range(s) == {s[i] : i \in DOMAIN s}

\* s without the entries that fail keep, order kept
RECURSIVE Filter(_, _)
Filter(s, keep) ==
    IF s = << >> THEN << >>
    ELSE (IF Head(s) \in keep THEN <<Head(s)>> ELSE << >>) \o Filter(Tail(s), keep)

\* the boxes sorted but not deduplicated: a box that occurs several times
\* in the list occurs as often in the outcome
SortedBoxes_with_repeats(hp, boxes) ==
    LET refs == Range(boxes)
        n == Len(boxes)
        Count(s, r) == Cardinality({i \in DOMAIN s : s[i] = r})
    IN  {o \in [1..n -> refs] :
            /\ \A r \in refs : Count(o, r) = Count(boxes, r)
            /\ \A i \in 1..n - 1 : hp[o[i]].size[1] >= hp[o[i + 1]].size[1]}

\* the boxes deduplicated but not sorted
SortedBoxes_unsorted(hp, boxes) ==
    LET refs == Range(boxes)
        n == Cardinality(refs)
    IN  {o \in [1..n -> refs] : \A i, j \in 1..n : i # j => o[i] # o[j]}

\* boxes = list(set(boxes)); boxes.sort(key=size[0], reverse=True): the set
\* iterates in an order that depends on the objects' addresses, the sort is
\* stable, so every arrangement of the distinct boxes with non-increasing
\* bounding width can come out
SortedBoxes(hp, boxes) ==
    LET refs == Range(boxes)
        n == Cardinality(refs)
    IN  {o \in [1..n -> refs] :
            /\ \A i, j \in 1..n : i # j => o[i] # o[j]
            /\ \A i \in 1..n - 1 : hp[o[i]].size[1] >= hp[o[i + 1]].size[1]}

\* plan_uv_begin with every box taken as a box to place
plan_uv_begin_all_unmapped(hp, sorted) ==
    [heap |-> hp,
     suggestions |-> << <<(<<0, 0>>), TOP_LEFT>> >>,
     authors |-> << >>,
     mapped_boxes |-> << >>,
     unmapped_boxes |-> sorted,
     box_i |-> 1,
     suggestion_i |-> -1,
     returned |-> sorted = << >>,
     ret |-> TRUE]

\* plan_uv_begin that returns False when there is no box to place
plan_uv_begin_nothing_fails(hp, sorted) ==
    LET mapped == {r \in Range(sorted) : hp[r].is_mapped}
        unmapped == Filter(sorted, Range(sorted) \ mapped)
    IN  [heap |-> hp,
         suggestions |-> << <<(<<0, 0>>), TOP_LEFT>> >>,
         authors |-> << >>,
         mapped_boxes |-> Filter(sorted, mapped),
         unmapped_boxes |-> unmapped,
         box_i |-> 1,
         suggestion_i |-> -1,
         returned |-> unmapped = << >>,
         ret |-> FALSE]

\* plan_uv up to the first box: sorted is the outcome of dedup and sort
plan_uv_begin(hp, sorted) ==
    LET mapped == {r \in Range(sorted) : hp[r].is_mapped}
        unmapped == Filter(sorted, Range(sorted) \ mapped)
    IN  [heap |-> hp,
         suggestions |-> << <<(<<0, 0>>), TOP_LEFT>> >>,
         authors |-> << >>,
         mapped_boxes |-> Filter(sorted, mapped),
         unmapped_boxes |-> unmapped,
         box_i |-> 1,
         suggestion_i |-> -1,
         returned |-> unmapped = << >>,
         ret |-> TRUE]

\* FirstCollision with the first of mapped_boxes left out of the loop
FirstCollision_skips_first(hp, box, mapped_boxes) ==
    LET hit == {k \in DOMAIN mapped_boxes :
                    k > 1 /\ UvMcCube_collides(hp[box], hp[mapped_boxes[k]])}
    IN  IF hit = {} THEN 0 ELSE CHOOSE k \in hit : \A l \in hit : k <= l

\* the first box of mapped_boxes that box collides with (0: none), the
\* inner for loop of plan_uv
FirstCollision(hp, box, mapped_boxes) ==
    LET hit == {k \in DOMAIN mapped_boxes :
                    UvMcCube_collides(hp[box], hp[mapped_boxes[k]])}
    IN  IF hit = {} THEN 0 ELSE CHOOSE k \in hit : \A l \in hit : k <= l

\* plan_uv_iteration that deletes the suggestion at which the box collided
plan_uv_iteration_collision_dropped(p, width, height) ==
    LET box == p.unmapped_boxes[p.box_i]
        suggestion_i == p.suggestion_i + 1
        suggestion == p.suggestions[suggestion_i + 1]
        hp == [p.heap EXCEPT ![box] = apply_suggestion(@, suggestion)]
        other_k == FirstCollision(hp, box, p.mapped_boxes)
        other_box == p.mapped_boxes[other_k]
        last == p.box_i = Len(p.unmapped_boxes)
    IN  IF _is_out_of_bounds(suggestion[1], <<0, 0>>, width, height)
        THEN [p EXCEPT !.heap = hp,
                       !.suggestions = Del(@, suggestion_i),
                       !.suggestion_i = suggestion_i - 1]
        ELSE IF _is_out_of_bounds(hp[box].uv, hp[box].size, width, height)
        THEN [p EXCEPT !.heap = hp, !.suggestion_i = suggestion_i]
        ELSE IF other_k # 0
        THEN IF other_box \in Range(p.authors)
             THEN [p EXCEPT !.heap = hp,
                            !.suggestions = Del(@, suggestion_i),
                            !.suggestion_i = suggestion_i - 1]
             ELSE [p EXCEPT !.heap = hp,
                            !.suggestion_i = suggestion_i - 1,
                            !.authors = Append(@, other_box),
                            !.suggestions =
                                Del(@ \o UvMcCube_suggest_positions(hp[other_box]),
                                    suggestion_i)]
        ELSE [p EXCEPT !.heap = [hp EXCEPT ![box].is_mapped = TRUE],
                       !.mapped_boxes = Append(@, box),
                       !.suggestions =
                           Del(@ \o UvMcCube_suggest_positions(hp[box]), suggestion_i),
                       !.box_i = @ + 1,
                       !.suggestion_i = -1,
                       !.returned = last,
                       !.ret = TRUE]

\* plan_uv_iteration that passes over a suggestion with an anchor out of
\* bounds and leaves it in the queue
plan_uv_iteration_anchor_kept(p, width, height) ==
    LET box == p.unmapped_boxes[p.box_i]
        suggestion_i == p.suggestion_i + 1
        suggestion == p.suggestions[suggestion_i + 1]
        hp == [p.heap EXCEPT ![box] = apply_suggestion(@, suggestion)]
        other_k == FirstCollision(hp, box, p.mapped_boxes)
        other_box == p.mapped_boxes[other_k]
        last == p.box_i = Len(p.unmapped_boxes)
    IN  IF _is_out_of_bounds(suggestion[1], <<0, 0>>, width, height)
        THEN [p EXCEPT !.heap = hp, !.suggestion_i = suggestion_i]
        ELSE IF _is_out_of_bounds(hp[box].uv, hp[box].size, width, height)
        THEN [p EXCEPT !.heap = hp, !.suggestion_i = suggestion_i]
        ELSE IF other_k # 0
        THEN IF other_box \in Range(p.authors)
             THEN [p EXCEPT !.heap = hp, !.suggestion_i = suggestion_i]
             ELSE [p EXCEPT !.heap = hp,
                            !.suggestion_i = suggestion_i,
                            !.authors = Append(@, other_box),
                            !.suggestions =
                                @ \o UvMcCube_suggest_positions(hp[other_box])]
        ELSE [p EXCEPT !.heap = [hp EXCEPT ![box].is_mapped = TRUE],
                       !.mapped_boxes = Append(@, box),
                       !.suggestions =
                           Del(@ \o UvMcCube_suggest_positions(hp[box]), suggestion_i),
                       !.box_i = @ + 1,
                       !.suggestion_i = -1,
                       !.returned = last,
                       !.ret = TRUE]

\* one pass through the body of the while loop of plan_uv (the loop
\* condition holds); an accepted box ends the loop and the for loop moves on
plan_uv_iteration(p, width, height) ==
    LET box == p.unmapped_boxes[p.box_i]
        suggestion_i == p.suggestion_i + 1
        suggestion == p.suggestions[suggestion_i + 1]
        hp == [p.heap EXCEPT ![box] = apply_suggestion(@, suggestion)]
        other_k == FirstCollision(hp, box, p.mapped_boxes)
        other_box == p.mapped_boxes[other_k]
        last == p.box_i = Len(p.unmapped_boxes)
    IN  IF _is_out_of_bounds(suggestion[1], <<0, 0>>, width, height)
        THEN [p EXCEPT !.heap = hp,
                       !.suggestions = Del(@, suggestion_i),
                       !.suggestion_i = suggestion_i - 1]
        ELSE IF _is_out_of_bounds(hp[box].uv, hp[box].size, width, height)
        THEN [p EXCEPT !.heap = hp, !.suggestion_i = suggestion_i]
        ELSE IF other_k # 0
        THEN IF other_box \in Range(p.authors)
             THEN [p EXCEPT !.heap = hp, !.suggestion_i = suggestion_i]
             ELSE [p EXCEPT !.heap = hp,
                            !.suggestion_i = suggestion_i,
                            !.authors = Append(@, other_box),
                            !.suggestions =
                                @ \o UvMcCube_suggest_positions(hp[other_box])]
        ELSE [p EXCEPT !.heap = [hp EXCEPT ![box].is_mapped = TRUE],
                       !.mapped_boxes = Append(@, box),
                       !.suggestions =
                           Del(@ \o UvMcCube_suggest_positions(hp[box]), suggestion_i),
                       !.box_i = @ + 1,
                       !.suggestion_i = -1,
                       !.returned = last,
                       !.ret = TRUE]

\* the else branch that also takes back the boxes accepted by the call
plan_uv_exhausted_rollback(p) ==
    LET tried == {p.unmapped_boxes[k] : k \in 1..p.box_i}
    IN  [p EXCEPT !.heap = [r \in DOMAIN p.heap |->
                                IF r \in tried
                                THEN [UvMcCube_set_uv(p.heap[r], <<0, 0>>)
                                          EXCEPT !.is_mapped = FALSE]
                                ELSE p.heap[r]],
                  !.returned = TRUE,
                  !.ret = FALSE]

\* the else branch without the reset of the box to (0, 0)
plan_uv_exhausted_no_reset(p) ==
    [p EXCEPT !.returned = TRUE, !.ret = FALSE]

\* the else branch of the while loop: the queue is exhausted for the box
plan_uv_exhausted(p) ==
    LET box == p.unmapped_boxes[p.box_i]
    IN  [p EXCEPT !.heap = [@ EXCEPT ![box] = UvMcCube_set_uv(@, <<0, 0>>)],
                  !.returned = TRUE,
                  !.ret = FALSE]

\* the loop condition of the while loop
MoreSuggestions(p) == Len(p.suggestions) > p.suggestion_i + 1

\* the pass of plan_uv that comes next in the state p of a running call
plan_uv_step(p, width, height) ==
    IF MoreSuggestions(p) THEN plan_uv_iteration(p, width, height)
    ELSE plan_uv_exhausted(p)

\* plan_uv from a state of the call to its return
RECURSIVE plan_uv_run(_, _, _)
plan_uv_run(p, width, height) ==
    IF p.returned THEN p
    ELSE IF MoreSuggestions(p)
    THEN plan_uv_run(plan_uv_iteration(p, width, height), width, height)
    ELSE plan_uv_run(plan_uv_exhausted(p), width, height)

\* ------------------------------------------------------------- get_uv_mc_cubes
\* the pass of the for loop that never registers a cube with its uv group
get_uv_mc_cubes_object_unregistered(g, name, obj, read_existing_uvs) ==
    LET fresh == Len(g.heap) + 1
    IN  IF read_existing_uvs /\ obj.mc_uv # None
        THEN [g EXCEPT !.heap = Append(@, UvMcCube(obj.w, obj.d, obj.h, obj.mc_uv)),
                       !.result = @ @@ (name :> fresh)]
        ELSE [g EXCEPT !.heap = Append(@, UvMcCube(obj.w, obj.d, obj.h, None)),
                       !.result = @ @@ (name :> fresh)]

\* the pass of the for loop that keeps one dict of sizes for all uv groups
get_uv_mc_cubes_object_one_group(g, name, obj, read_existing_uvs) ==
    LET whd == <<obj.w, obj.d, obj.h>>
        key == obj.mc_uv_group
        known == key # None /\ whd \in DOMAIN g.uv_groups
        fresh == Len(g.heap) + 1
    IN  IF read_existing_uvs /\ obj.mc_uv # None
        THEN [g EXCEPT !.heap = Append(@, UvMcCube(obj.w, obj.d, obj.h, obj.mc_uv)),
                       !.result = @ @@ (name :> fresh)]
        ELSE IF known
        THEN [g EXCEPT !.result = @ @@ (name :> g.uv_groups[whd])]
        ELSE IF key # None
        THEN [g EXCEPT !.heap = Append(@, UvMcCube(obj.w, obj.d, obj.h, None)),
                       !.result = @ @@ (name :> fresh),
                       !.uv_groups = (whd :> fresh) @@ @]
        ELSE [g EXCEPT !.heap = Append(@, UvMcCube(obj.w, obj.d, obj.h, None)),
                       !.result = @ @@ (name :> fresh)]

\* one pass through the for loop of get_uv_mc_cubes for the object named
\* name; g holds the heap, the result dict and the uv_groups dict
get_uv_mc_cubes_object(g, name, obj, read_existing_uvs) ==
    LET whd == <<obj.w, obj.d, obj.h>>
        key == obj.mc_uv_group
        known == /\ key # None
                 /\ key[1] \in DOMAIN g.uv_groups
                 /\ whd \in DOMAIN g.uv_groups[key[1]]
        fresh == Len(g.heap) + 1
        items == IF key # None /\ key[1] \in DOMAIN g.uv_groups
                 THEN g.uv_groups[key[1]] ELSE << >>
    IN  IF read_existing_uvs /\ obj.mc_uv # None
        THEN [g EXCEPT !.heap = Append(@, UvMcCube(obj.w, obj.d, obj.h, obj.mc_uv)),
                       !.result = @ @@ (name :> fresh)]
        ELSE IF known
        THEN [g EXCEPT !.result = @ @@ (name :> g.uv_groups[key[1]][whd])]
        ELSE IF key # None
        THEN [g EXCEPT !.heap = Append(@, UvMcCube(obj.w, obj.d, obj.h, None)),
                       !.result = @ @@ (name :> fresh),
                       !.uv_groups = (key[1] :> (items @@ (whd :> fresh))) @@ @]
        ELSE [g EXCEPT !.heap = Append(@, UvMcCube(obj.w, obj.d, obj.h, None)),
                       !.result = @ @@ (name :> fresh)]

\* get_uv_mc_cubes: the objects in order, from the n-th on
RECURSIVE get_uv_mc_cubes_from(_, _, _, _)
get_uv_mc_cubes_from(g, n, objs, read_existing_uvs) ==
    IF n > Len(objs) THEN g
    ELSE get_uv_mc_cubes_from(
            get_uv_mc_cubes_object(g, n, objs[n], read_existing_uvs),
            n + 1, objs, read_existing_uvs)

get_uv_mc_cubes(objs, read_existing_uvs) ==
    get_uv_mc_cubes_from([heap |-> << >>, result |-> << >>, uv_groups |-> << >>],
                         1, objs, read_existing_uvs)

\* ------------------------------------------------------------- state
VARIABLES
    objects,            \* the objects handed to get_uv_mc_cubes, in order
    read_existing_uvs,  \* the flag handed to get_uv_mc_cubes
    todo,               \* the (width, height) of the plan_uv calls still to come
    heap,               \* the UvMcCube objects; a reference is an index
    result,             \* get_uv_mc_cubes: object name (its index) -> reference
    uv_groups,          \* get_uv_mc_cubes: group key -> (w, d, h) -> reference
    pc,                 \* "objects", "idle" (no call running) or "plan_uv"
    width, height,      \* plan_uv: the arguments of the running or last call
    boxes,              \* plan_uv: boxes after dedup and sort
    suggestions, authors, mapped_boxes, unmapped_boxes,
    box_i,              \* plan_uv: position of the for loop in unmapped_boxes
    suggestion_i,
    ret,                \* plan_uv: None, or <<the value the last call returned>>
    heap0,              \* the heap as it was when the running or last call began
    this, that,         \* two boxes made on their own (UvBox or UvMcCube), or None
    out                 \* the value the last method called on this returned

vars == <<objects, read_existing_uvs, todo, heap, result, uv_groups, pc, width,
          height, boxes, suggestions, authors, mapped_boxes, unmapped_boxes,
          box_i, suggestion_i, ret, heap0, this, that, out>>

planVars == <<suggestions, authors, mapped_boxes, unmapped_boxes, box_i, suggestion_i>>

boxVars == <<this, that, out>>

\* ------------------------------------------------------------- inputs
GroupKeys == {"A", "B"}
TexWidths == 3..MaxTexWidth
TexHeights == {None} \cup {<<h>> : h \in 2..MaxTexHeight}

\* the weight of an object: its three dimensions and, with a persisted
\* placement (u, v), 1 + u + v
Weight(o) ==
    o.w + o.d + o.h + (IF o.mc_uv = None THEN 0 ELSE 1 + o.mc_uv[1] + o.mc_uv[2])

\* the persisted placements of weight at most budget, and none
Placements(budget) ==
    {None} \cup UNION {{<<u, v>> : v \in 0..budget - 1 - u} : u \in 0..budget - 1}

\* the objects of weight at most budget, with dimensions of at least 1, with
\* a uv group of keys or none, with a persisted placement or none
Descriptors(keys, budget) ==
    UNION {UNION {UNION {
        [w : {w}, d : {d}, h : {h},
         mc_uv_group : {None} \cup {<<k>> : k \in keys},
         mc_uv : Placements(budget - w - d - h)] :
        h \in 1..budget - w - d} : d \in 1..budget - w - 1} : w \in 1..budget - 2}

\* the lists of objects that weigh at most budget together
RECURSIVE Lists(_, _)
Lists(keys, budget) ==
    {<< >>} \cup
    UNION {{<<o>> \o l : l \in Lists(keys, budget - Weight(o))} :
             o \in Descriptors(keys, budget)}

InitOf(objs, read, calls) ==
    /\ objects \in objs
    /\ read_existing_uvs \in read
    /\ todo \in calls
    /\ heap = << >>
    /\ result = << >>
    /\ uv_groups = << >>
    /\ pc = "objects"
    /\ width = 0
    /\ height = None
    /\ boxes = << >>
    /\ suggestions = << >>
    /\ authors = << >>
    /\ mapped_boxes = << >>
    /\ unmapped_boxes = << >>
    /\ box_i = 1
    /\ suggestion_i = -1
    /\ ret = None
    /\ heap0 = << >>
    /\ this = None
    /\ that = None
    /\ out = None

\* one plan_uv call on any texture size, on any objects without uv groups
Init ==
    InitOf(Lists({}, MaxWeight), {TRUE},
           [1..1 -> TexWidths \X TexHeights])

\* MaxCalls plan_uv calls, each on a narrow and low or on a wide and unbounded
\* texture, on any objects without uv groups
RetryTex == {<<MaxTexWidth \div 2 + 1, <<MaxTexHeight>>>>, <<MaxTexWidth, None>>}

InitRetry ==
    InitOf(Lists({}, MaxWeight), {TRUE}, [1..MaxCalls -> RetryTex])

\* one plan_uv call, on a wide texture of any height, on any objects with and
\* without a uv group, their persisted placements read or ignored
InitGroups ==
    InitOf(Lists(GroupKeys, MaxWeight), BOOLEAN, [1..1 -> {<<MaxTexWidth, None>>}])

\* the three cubes (width, depth, height) = (2,2,2), (4,2,2), (2,2,4), fresh,
\* in any order, planned once on a texture of width 12 or 16
ScenarioCubes ==
    <<[w |-> 2, d |-> 2, h |-> 2, mc_uv_group |-> None, mc_uv |-> None],
      [w |-> 4, d |-> 2, h |-> 2, mc_uv_group |-> None, mc_uv |-> None],
      [w |-> 2, d |-> 2, h |-> 4, mc_uv_group |-> None, mc_uv |-> None]>>

InitScenario ==
    InitOf({o \in [1..3 -> Range(ScenarioCubes)] : Range(o) = Range(ScenarioCubes)},
           {TRUE}, [1..1 -> {12, 16} \X ({None} \cup {<<h>> : h \in {6, 10, 14}})])

\* two unit cubes with persisted placements, the obstacles, and one fresh
\* cube of any height, planned once on any texture size
Obstacles ==
    {[w |-> 1, d |-> 1, h |-> 1, mc_uv_group |-> None, mc_uv |-> uv] :
        uv \in (0..MaxPos) \X (0..MaxPos)}

InitObstacles ==
    InitOf({<<o1, o2, [w |-> 1, d |-> 1, h |-> h, mc_uv_group |-> None,
                      mc_uv |-> None]>> :
                o1 \in Obstacles, o2 \in Obstacles, h \in 1..MaxSide},
           {TRUE}, [1..1 -> TexWidths \X TexHeights])

\* the running call as a record, and the variables set from such a record
PlanState ==
    [heap |-> heap, suggestions |-> suggestions, authors |-> authors,
     mapped_boxes |-> mapped_boxes, unmapped_boxes |-> unmapped_boxes,
     box_i |-> box_i, suggestion_i |-> suggestion_i,
     returned |-> pc # "plan_uv", ret |-> TRUE]

SetPlanState(p) ==
    /\ heap' = p.heap
    /\ suggestions' = p.suggestions
    /\ authors' = p.authors
    /\ mapped_boxes' = p.mapped_boxes
    /\ unmapped_boxes' = p.unmapped_boxes
    /\ box_i' = p.box_i
    /\ suggestion_i' = p.suggestion_i
    /\ pc' = IF p.returned THEN "idle" ELSE "plan_uv"
    /\ ret' = IF p.returned THEN <<p.ret>> ELSE None

\* ------------------------------------------------------------- actions
\* get_uv_mc_cubes(objects, read_existing_uvs)
GetUvMcCubes ==
    /\ pc = "objects"
    /\ LET g == get_uv_mc_cubes(objects, read_existing_uvs)
       IN  /\ heap' = g.heap
           /\ result' = g.result
           /\ uv_groups' = g.uv_groups
    /\ pc' = "idle"
    /\ UNCHANGED <<objects, read_existing_uvs, todo, width, height, boxes,
                   planVars, ret, heap0, boxVars>>

\* the boxes the caller hands to plan_uv: the values of the mapping
ResultBoxes == [n \in 1..Len(objects) |-> result[n]]

\* plan_uv(list of the cubes, width, height) up to the first pass of the
\* while loop
PlanUvBegin ==
    /\ pc = "idle"
    /\ todo # << >>
    /\ \E sorted \in SortedBoxes(heap, ResultBoxes) :
        /\ boxes' = sorted
        /\ SetPlanState(plan_uv_begin(heap, sorted))
    /\ width' = Head(todo)[1]
    /\ height' = Head(todo)[2]
    /\ todo' = Tail(todo)
    /\ heap0' = heap
    /\ UNCHANGED <<objects, read_existing_uvs, result, uv_groups, boxVars>>

\* one pass of the while loop of plan_uv
PlanUvIteration ==
    /\ pc = "plan_uv"
    /\ MoreSuggestions(PlanState)
    /\ SetPlanState(plan_uv_iteration(PlanState, width, height))
    /\ UNCHANGED <<objects, read_existing_uvs, todo, result, uv_groups, width,
                   height, boxes, heap0, boxVars>>

\* the while loop of plan_uv ends without a break
PlanUvExhausted ==
    /\ pc = "plan_uv"
    /\ ~MoreSuggestions(PlanState)
    /\ SetPlanState(plan_uv_exhausted(PlanState))
    /\ UNCHANGED <<objects, read_existing_uvs, todo, result, uv_groups, width,
                   height, boxes, heap0, boxVars>>

Next ==
    \/ GetUvMcCubes
    \/ PlanUvBegin
    \/ PlanUvIteration
    \/ PlanUvExhausted

Spec == Init /\ [][Next]_vars

SpecRetry == InitRetry /\ [][Next]_vars

SpecGroups == InitGroups /\ [][Next]_vars

SpecScenario == InitScenario /\ [][Next]_vars

SpecObstacles == InitObstacles /\ [][Next]_vars

\* ------------------------------------------------------------- boxes on their own
Sides == 1..MaxSide
Placed == {None} \cup ((0..MaxPos) \X (0..MaxPos))

\* the plain rectangles, unplaced or placed
Rects == {UvBox(<<w, h>>, uv) : w \in Sides, h \in Sides, uv \in Placed}

\* the cubes, unplaced or placed
Cubes == {UvMcCube(w, d, h, uv) : w \in Sides, d \in Sides, h \in Sides, uv \in Placed}

\* neither get_uv_mc_cubes nor plan_uv is called
MainUnused ==
    /\ objects = << >>
    /\ read_existing_uvs = FALSE
    /\ todo = << >>
    /\ heap = << >>
    /\ result = << >>
    /\ uv_groups = << >>
    /\ width = 0
    /\ height = None
    /\ boxes = << >>
    /\ suggestions = << >>
    /\ authors = << >>
    /\ mapped_boxes = << >>
    /\ unmapped_boxes = << >>
    /\ box_i = 1
    /\ suggestion_i = -1
    /\ ret = None
    /\ heap0 = << >>

\* two rectangles, or a cube and a cube that is not placed yet
InitBoxes ==
    /\ \E pair \in (Rects \X Rects) \cup (Cubes \X {c \in Cubes : ~c.is_mapped}) :
        /\ this = pair[1]
        /\ that = pair[2]
    /\ out = None
    /\ pc = "made"
    /\ MainUnused

mainVars == <<objects, read_existing_uvs, todo, heap, result, uv_groups, width,
              height, boxes, planVars, ret, heap0>>

\* this.collides(that)
BoxCollides ==
    /\ pc \in {"made", "apply_suggestion"}
    /\ out' = <<Box_collides(this, that)>>
    /\ pc' = "collides"
    /\ UNCHANGED <<this, that, mainVars>>

\* this.suggest_positions()
BoxSuggestPositions ==
    /\ pc = "made"
    /\ out' = Box_suggest_positions(this)
    /\ pc' = "suggest_positions"
    /\ UNCHANGED <<this, that, mainVars>>

\* that.apply_suggestion(s) for one of the suggestions s of this; out keeps s
BoxApplySuggestion ==
    /\ pc = "suggest_positions"
    /\ \E k \in DOMAIN out :
        /\ that' = Box_apply_suggestion(that, out[k])
        /\ out' = out[k]
    /\ pc' = "apply_suggestion"
    /\ UNCHANGED <<this, mainVars>>

NextBoxes ==
    \/ BoxCollides
    \/ BoxSuggestPositions
    \/ BoxApplySuggestion

SpecBoxes == InitBoxes /\ [][NextBoxes]_vars

\* ------------------------------------------------------------- constructors
\* the numbers a caller can hand to a constructor as a side or a dimension
Numbers == -MaxSide..MaxSide

InitShapes ==
    /\ this = None
    /\ that = None
    /\ out = None
    /\ pc = "new"
    /\ MainUnused

\* this = UvBox((w, h), uv); out keeps the sides handed in
NewUvBox ==
    /\ pc = "new"
    /\ \E w \in Numbers, h \in Numbers, uv \in Placed :
        /\ this' = UvBox(<<w, h>>, uv)
        /\ out' = <<w, h>>
    /\ pc' = "made"
    /\ UNCHANGED <<that, mainVars>>

\* this = UvMcCube(w, d, h, uv); out keeps the dimensions handed in
NewUvMcCube ==
    /\ pc = "new"
    /\ \E w \in Numbers, d \in Numbers, h \in Numbers, uv \in Placed :
        /\ this' = UvMcCube(w, d, h, uv)
        /\ out' = <<w, d, h>>
    /\ pc' = "made"
    /\ UNCHANGED <<that, mainVars>>

NextShapes ==
    \/ NewUvBox
    \/ NewUvMcCube

SpecShapes == InitShapes /\ [][NextShapes]_vars

\* ------------------------------------------------------------- claims
\* the last plan_uv call has returned with value b
Returned(b) == pc = "idle" /\ ret = <<b>>

\* the boxes accepted by the running or last call, in the order of acceptance
Accepted == Filter(mapped_boxes, {r \in DOMAIN heap0 : ~heap0[r].is_mapped})

\* the bounding rectangles of the boxes a and b share a cell
BoundsOverlap(a, b) == UvBox_collides(heap[a], heap[b])

\* C1 (as stated): after plan_uv returns True, A.collides(B) is False for
\* every ordered pair of distinct boxes accepted by the call, in both directions.
C1_NoCollisionBothWays ==
    Returned(TRUE) =>
        \A i, j \in DOMAIN Accepted :
            i # j => ~UvMcCube_collides(heap[Accepted[i]], heap[Accepted[j]])

\* C1 (amended): after plan_uv returns True, A.collides(B) is False for every
\* pair of boxes accepted by the call where A was accepted after B: no face
\* of the later box overlaps the bounding rectangle of the earlier one.
C1_NoCollisionWithEarlier ==
    Returned(TRUE) =>
        \A i, j \in DOMAIN Accepted :
            j < i => ~UvMcCube_collides(heap[Accepted[i]], heap[Accepted[j]])

\* C1 witness: a call returned True having accepted two boxes whose bounding
\* rectangles overlap (the later one is nested into a corner of the earlier)
C1_Witness ==
    /\ Returned(TRUE)
    /\ Len(Accepted) >= 2
    /\ BoundsOverlap(Accepted[1], Accepted[2])

\* C2: every box accepted by plan_uv lies inside the texture: 0 <= u, 0 <= v,
\* u + bounding width <= max width and, when a max height is given,
\* v + bounding height <= max height; the bounding size is
\* (2*depth + 2*width, height + depth).
C2_AcceptedInBounds ==
    \A i \in DOMAIN Accepted :
        LET b == heap[Accepted[i]]
        IN  /\ 0 <= b.uv[1]
            /\ 0 <= b.uv[2]
            /\ b.uv[1] + (2 * b.depth + 2 * b.width) <= width
            /\ height # None => b.uv[2] + (b.height + b.depth) <= height[1]

\* C2 witness: a call with a max height returned having accepted a box that
\* ends exactly at the right and the lower border of the texture
C2_Witness ==
    /\ pc = "idle" /\ ret # None /\ height # None
    /\ \E i \in DOMAIN Accepted :
        LET b == heap[Accepted[i]]
        IN  /\ b.uv[1] > 0
            /\ b.uv[1] + b.size[1] = width
            /\ b.uv[2] + b.size[2] = height[1]

\* C4: when plan_uv returns False, the box on which the queue was exhausted
\* is at (0,0) with is_mapped False and its six faces at their offsets from
\* (0,0), and no box later in the processing order was moved or marked
\* mapped by the call.
C4_FailureLeavesRest ==
    Returned(FALSE) =>
        LET b == heap[unmapped_boxes[box_i]]
        IN  /\ b.uv = <<0, 0>>
            /\ ~b.is_mapped
            /\ b.right.uv = <<0, b.depth>>
            /\ b.front.uv = <<b.depth, b.depth>>
            /\ b.left.uv = <<b.depth + b.width, b.depth>>
            /\ b.back.uv = <<2 * b.depth + b.width, b.depth>>
            /\ b.top.uv = <<b.depth, 0>>
            /\ b.bottom.uv = <<b.depth + b.width, 0>>
            /\ \A k \in box_i + 1..Len(unmapped_boxes) :
                heap[unmapped_boxes[k]] = heap0[unmapped_boxes[k]]

\* C4 witness: plan_uv returned False on a box that was tried at several
\* suggestions, and a box that would have fitted the texture comes after it
C4_Witness ==
    /\ Returned(FALSE)
    /\ box_i < Len(unmapped_boxes)
    /\ suggestion_i >= 1
    /\ ~_is_out_of_bounds(<<0, 0>>, heap[unmapped_boxes[box_i + 1]].size, width, height)

\* the unmapped input boxes of the running or last call
Unmapped0 == {r \in Range(boxes) : ~heap0[r].is_mapped}

\* C5: if an unmapped input box is wider (2*depth + 2*width) than the max
\* width, plan_uv returns False, and every box that was unmapped at the start,
\* the widest one included, is unmapped at (0,0) at the return: the call
\* accepts no box.
C5_TooWideFails ==
    (pc = "idle" /\ ret # None /\ \E r \in Unmapped0 : heap0[r].size[1] > width) =>
        /\ ret = <<FALSE>>
        /\ Accepted = << >>
        /\ \A r \in Unmapped0 : ~heap[r].is_mapped /\ heap[r].uv = <<0, 0>>

\* C5 witness: plan_uv returned on input with a box wider than the texture and
\* another unmapped box that fits the texture
C5_Witness ==
    /\ pc = "idle" /\ ret # None
    /\ \E r, s \in Unmapped0 :
        /\ heap0[r].size[1] > width
        /\ ~_is_out_of_bounds(<<0, 0>>, heap0[s].size, width, height)

\* C6 (as stated): plan_uv is a function of its input: every run on the input
\* of the call that returned (same boxes, same max width and max height)
\* returns the same value and leaves every box at the same position.
C6_Deterministic ==
    (pc = "idle" /\ ret # None) =>
        \A sorted \in SortedBoxes(heap0, ResultBoxes) :
            LET run == plan_uv_run(plan_uv_begin(heap0, sorted), width, height)
            IN  /\ run.ret = ret[1]
                /\ \A r \in DOMAIN heap : run.heap[r].uv = heap[r].uv

\* C3: a box that is mapped when plan_uv is called (built from a persisted
\* placement, or accepted by an earlier call) keeps its position, its six
\* face positions and its is_mapped flag throughout the call and at its
\* return, True or False; a box accepted by the call stays mapped.
C3_MappedUntouched ==
    /\ \A r \in DOMAIN heap0 : heap0[r].is_mapped => heap[r] = heap0[r]
    /\ \A r \in Range(mapped_boxes) : heap[r].is_mapped

\* C3 witness: a second call has accepted a box while a box accepted by the
\* first call was an obstacle
C3_Witness ==
    /\ pc = "idle" /\ todo = << >> /\ ret # None
    /\ Accepted # << >>
    /\ \E n \in DOMAIN objects :
        /\ objects[n].mc_uv = None
        /\ heap0[result[n]].is_mapped

\* the object named n takes its placement from its mc_uv property
ReadsExistingUv(n) == read_existing_uvs /\ objects[n].mc_uv # None

\* the objects named m and n have the same uv group and the same size
SameGroupAndSize(m, n) ==
    /\ objects[m].mc_uv_group # None
    /\ objects[m].mc_uv_group = objects[n].mc_uv_group
    /\ <<objects[m].w, objects[m].d, objects[m].h>>
         = <<objects[n].w, objects[n].d, objects[n].h>>

C8_SharingOnlyByGroupAndSize ==
    pc # "objects" =>
        \A m, n \in DOMAIN objects :
            (m # n /\ result[m] = result[n]) => SameGroupAndSize(m, n)

\* C8 witness: of three objects of one size the first and the last share a
\* cube and the second, of another uv group, has its own
C8_Witness ==
    /\ pc # "objects"
    /\ Len(objects) = 3
    /\ objects[1].w = objects[2].w /\ objects[2].w = objects[3].w
    /\ objects[1].mc_uv_group # None /\ objects[2].mc_uv_group # None
    /\ objects[1].mc_uv_group # objects[2].mc_uv_group
    /\ result[1] = result[3]
    /\ result[2] # result[1]

\* C9: an object whose persisted placement is read (mc_uv present,
\* read_existing_uvs true) has a UvMcCube of its own, at exactly that
\* placement, with the six faces at their offsets from it and is_mapped True,
\* and plan_uv never has it among the boxes to place.
C9_ExistingUvIsFixed ==
    pc # "objects" =>
        \A n \in DOMAIN objects :
            ReadsExistingUv(n) =>
                LET b == heap[result[n]]
                    u == objects[n].mc_uv[1]
                    v == objects[n].mc_uv[2]
                IN  /\ \A m \in DOMAIN objects : m # n => result[m] # result[n]
                    /\ <<b.width, b.depth, b.height>>
                         = <<objects[n].w, objects[n].d, objects[n].h>>
                    /\ b.uv = <<u, v>>
                    /\ b.is_mapped
                    /\ b.right.uv = <<u, v + b.depth>>
                    /\ b.front.uv = <<u + b.depth, v + b.depth>>
                    /\ b.left.uv = <<u + b.depth + b.width, v + b.depth>>
                    /\ b.back.uv = <<u + 2 * b.depth + b.width, v + b.depth>>
                    /\ b.top.uv = <<u + b.depth, v>>
                    /\ b.bottom.uv = <<u + b.depth + b.width, v>>
                    /\ result[n] \notin Range(unmapped_boxes)

\* C9 witness: plan_uv returned having placed a box around an obstacle built
\* from a persisted placement away from (0,0), which belongs to a uv group
C9_Witness ==
    /\ pc = "idle" /\ ret # None
    /\ Accepted # << >>
    /\ \E n \in DOMAIN objects :
        /\ ReadsExistingUv(n)
        /\ objects[n].mc_uv # <<0, 0>>
        /\ objects[n].mc_uv_group # None
        /\ result[n] \in Range(authors)

\* the scenario run: the three cubes planned with max width 16, no max height
ScenarioReturned == pc = "idle" /\ ret # None /\ width = 16 /\ height = None

\* C10: planning the three fresh cubes (2,2,2), (4,2,2), (2,2,4) with max
\* width 16 and no max height returns True whichever of the two cubes of equal
\* bounding width is processed first, and then the bounding rectangles (8x4,
\* 12x4, 8x6) are pairwise non-overlapping with u >= 0, v >= 0 and
\* u + bounding width <= 16.
C10_Scenario ==
    ScenarioReturned =>
        /\ ret = <<TRUE>>
        /\ {heap[r].size : r \in DOMAIN heap} = {<<8, 4>>, <<12, 4>>, <<8, 6>>}
        /\ \A r, s \in DOMAIN heap : r # s => ~BoundsOverlap(r, s)
        /\ \A r \in DOMAIN heap :
            /\ heap[r].uv[1] >= 0
            /\ heap[r].uv[2] >= 0
            /\ heap[r].uv[1] + heap[r].size[1] <= 16

\* C10 witness: the scenario run returned having processed the cube (2,2,4)
\* before the cube (2,2,2)
C10_Witness ==
    /\ ScenarioReturned
    /\ heap[boxes[2]].height = 4
    /\ heap[boxes[3]].height = 2
    /\ heap[boxes[3]].uv # <<0, 0>>

\* the suggestions one box adds to the queue
PerBox == Len(UvMcCube_suggest_positions(UvMcCube(1, 1, 1, None)))

\* a variant of the loops of plan_uv for n input boxes: the suggestions left
\* to scan for the box, plus what the obstacles that are no authors yet can
\* still add; every box still to come counts for more than a scan can last
Variant(p, n) ==
    IF p.returned THEN 0
    ELSE 1 + (Len(p.unmapped_boxes) - p.box_i) * (3 * PerBox * (n + 1))
           + (Len(p.suggestions) - p.suggestion_i - 1)
           + PerBox * (Len(p.mapped_boxes) - Len(p.authors))

\* C11: plan_uv terminates on every input list and every bounds setting,
\* also without a max height: the scan of the queue for each box ends in
\* acceptance or in exhaustion although the queue grows while it is scanned.
\* Every pass of the while loop, and the else branch, lowers a variant that
\* is a natural number and is 0 only at the return.
C11_Terminates ==
    pc = "plan_uv" =>
        LET p == PlanState
            q == plan_uv_step(p, width, height)
        IN  /\ Variant(p, Len(boxes)) > 0
            /\ Variant(q, Len(boxes)) >= 0
            /\ Variant(q, Len(boxes)) < Variant(p, Len(boxes))

\* C11 witness: a call without max height is running, the queue has grown
\* during the scan for the second box: an obstacle has added its suggestions
C11_Witness ==
    /\ pc = "plan_uv" /\ height = None
    /\ authors # << >>
    /\ box_i >= 2
    /\ suggestion_i >= 1
    /\ Len(suggestions) > PerBox
    /\ MoreSuggestions(PlanState)

\* the cells of the bounding rectangle of a box: [u, u+width) x [v, v+height)
Cells(box) ==
    (box.uv[1]..box.uv[1] + box.size[1] - 1) \X (box.uv[2]..box.uv[2] + box.size[2] - 1)

\* the distance between two numbers
Dist(x, y) == IF x < y THEN y - x ELSE x - y

\* the rectangles of a and b share part of an edge: a cell of one lies next
\* to a cell of the other
Touches(a, b) ==
    \E c \in Cells(a), e \in Cells(b) : Dist(c[1], e[1]) + Dist(c[2], e[2]) = 1

\* the rectangles of a and b meet in a corner point only
TouchesCorner(a, b) ==
    /\ ~Touches(a, b)
    /\ \E c \in Cells(a), e \in Cells(b) : Dist(c[1], e[1]) = 1 /\ Dist(c[2], e[2]) = 1

\* C12: UvBox.collides(self, other) is True exactly when the half-open cell
\* ranges of the two rectangles overlap on both axes, that is when they have
\* a cell in common; rectangles that touch along an edge or in a corner do
\* not collide; for plain rectangles the result is symmetric.
C12_CollidesIffOverlap ==
    (pc = "collides" /\ ~IsUvMcCube(this)) =>
        /\ out[1] = (Cells(this) \cap Cells(that) # {})
        /\ (Touches(this, that) /\ Cells(this) \cap Cells(that) = {}) => ~out[1]
        /\ TouchesCorner(this, that) => ~out[1]
        /\ Box_collides(that, this) = out[1]

\* C12 witness: collides has returned False for two rectangles of different
\* sizes that touch along an edge, one of them moved there by a suggestion
C12_Witness ==
    /\ pc = "collides" /\ ~IsUvMcCube(this)
    /\ out = <<FALSE>>
    /\ Touches(this, that)
    /\ this.size # that.size
    /\ that.uv[1] < 0

\* the cell in the corner of the bounding rectangle of a box
CornerCell(box, corner) ==
    CASE corner = TOP_LEFT -> <<box.uv[1], box.uv[2]>>
      [] corner = TOP_RIGHT -> <<box.uv[1] + box.size[1] - 1, box.uv[2]>>
      [] corner = BOTTOM_LEFT -> <<box.uv[1], box.uv[2] + box.size[2] - 1>>
      [] corner = BOTTOM_RIGHT ->
            <<box.uv[1] + box.size[1] - 1, box.uv[2] + box.size[2] - 1>>

\* C13: for every box (UvBox, or UvMcCube with its bounding rectangle) and
\* every suggestion (point, anchor), after apply_suggestion the cell of the
\* box in the corner named by the anchor is the point.
C13_AnchorOnPoint ==
    pc = "apply_suggestion" => CornerCell(that, out[2]) = out[1]

\* C13 witness: a cube less than twice as wide as high has been moved by its
\* bottom right corner to a negative v
C13_Witness ==
    /\ pc = "apply_suggestion"
    /\ IsUvMcCube(that)
    /\ out[2] = BOTTOM_RIGHT
    /\ that.size[1] < that.size[2] + that.size[2]
    /\ that.uv[2] < 0

\* C14: for two plain rectangles A and B and any of the 8 suggestions s of
\* A.suggest_positions(), after B.apply_suggestion(s) B touches A (shares
\* part of an edge with it) and A.collides(B) is False.
C14_SuggestionTouches ==
    (pc = "apply_suggestion" /\ ~IsUvMcCube(this)) =>
        /\ Touches(this, that)
        /\ ~Box_collides(this, that)
        /\ Cells(this) \cap Cells(that) = {}

\* C14 witness: a rectangle wider and higher than A has been moved to the
\* left of A by the last suggestion of A
C14_Witness ==
    /\ pc = "apply_suggestion" /\ ~IsUvMcCube(this)
    /\ out = UvBox_suggest_positions(this)[8]
    /\ that.size[1] > this.size[1]
    /\ that.size[2] > this.size[2]
    /\ this.uv # <<0, 0>>

\* C15 (as stated): for two cubes A (at any position) and B and any
\* suggestion s of A.suggest_positions(), after B.apply_suggestion(s) B lies
\* against A without overlapping it: neither A.collides(B) nor B.collides(A).
C15_SuggestionClear ==
    (pc = "apply_suggestion" /\ IsUvMcCube(this)) =>
        /\ ~Box_collides(this, that)
        /\ ~Box_collides(that, this)

\* the six faces of the cube b sit at their offsets from the position of b
FacesAtOffsets(b) ==
    LET u == b.uv[1]
        v == b.uv[2]
        d == b.depth
        w == b.width
    IN  /\ b.right.uv = <<u, v + d>>
        /\ b.front.uv = <<u + d, v + d>>
        /\ b.left.uv = <<u + d + w, v + d>>
        /\ b.back.uv = <<u + 2 * d + w, v + d>>
        /\ b.top.uv = <<u + d, v>>
        /\ b.bottom.uv = <<u + d + w, v>>

\* C16: at every moment of the life of a UvMcCube (after construction with or
\* without a placement, after any assignment of its position, after
\* apply_suggestion, after the reset to (0,0) in plan_uv) its six faces sit at
\* the fixed offsets from its position (u, v): right (u, v+d), front
\* (u+d, v+d), left (u+d+w, v+d), back (u+2d+w, v+d), top (u+d, v), bottom
\* (u+d+w, v).
C16_FacesFollow ==
    \A r \in DOMAIN heap : FacesAtOffsets(heap[r])

\* C16 witness: during a call a box has been moved by a suggestion to a
\* negative position, beside a cube built from a placement away from (0,0)
C16_Witness ==
    /\ pc = "plan_uv"
    /\ suggestion_i >= 0
    /\ heap[unmapped_boxes[box_i]].uv[2] < 0
    /\ heap[unmapped_boxes[box_i]].width # heap[unmapped_boxes[box_i]].depth
    /\ \E r \in Range(mapped_boxes) : heap0[r].is_mapped /\ heap[r].uv # <<0, 0>>

\* C17 (as stated): constructing a UvBox or UvMcCube with a non-positive
\* width, height or depth fails with an error and produces no box.
C17_InvalidShapeFails ==
    (pc = "made" /\ \E i \in DOMAIN out : out[i] <= 0) => this = None

\* C18: if the input of plan_uv holds no unmapped box (the empty list, or
\* only mapped boxes, as in a second call on the same boxes after a call that
\* returned True), plan_uv returns True and changes no position and no
\* is_mapped flag, whatever the max width and max height are.
C18_NothingToPlace ==
    (pc = "idle" /\ ret # None /\ Unmapped0 = {}) =>
        /\ ret = <<TRUE>>
        /\ heap = heap0

\* C18 witness: a second call has returned on two or more boxes, all mapped,
\* one of them by the first call, one of them outside the texture of the
\* second call
C18_Witness ==
    /\ pc = "idle" /\ ret # None /\ todo = << >>
    /\ Unmapped0 = {}
    /\ Len(boxes) >= 2
    /\ \E n \in DOMAIN objects : objects[n].mc_uv = None
    /\ \E r \in Range(boxes) : _is_out_of_bounds(heap[r].uv, heap[r].size, width, height)

\* C19: UvBox.suggest_positions returns exactly 8 suggestions in the order
\* top-left, top-right, right-top, right-bottom, bottom-right, bottom-left,
\* left-bottom, left-top; for a rectangle at (u, v) of size (w, h) they are
\* ((u, v-1), BOTTOM_LEFT), ((u+w-1, v-1), BOTTOM_RIGHT), ((u+w, v), TOP_LEFT),
\* ((u+w, v+h-1), BOTTOM_LEFT), ((u+w-1, v+h), TOP_RIGHT), ((u, v+h), TOP_LEFT),
\* ((u-1, v+h-1), BOTTOM_RIGHT), ((u-1, v), TOP_RIGHT); the rectangle is as it
\* was made.
C19_EightSuggestions ==
    (pc = "suggest_positions" /\ ~IsUvMcCube(this)) =>
        LET u == this.uv[1]
            v == this.uv[2]
            w == this.size[1]
            h == this.size[2]
        IN  /\ Len(out) = 8
            /\ out = << <<(<<u, v - 1>>), BOTTOM_LEFT>>,
                        <<(<<u + w - 1, v - 1>>), BOTTOM_RIGHT>>,
                        <<(<<u + w, v>>), TOP_LEFT>>,
                        <<(<<u + w, v + h - 1>>), BOTTOM_LEFT>>,
                        <<(<<u + w - 1, v + h>>), TOP_RIGHT>>,
                        <<(<<u, v + h>>), TOP_LEFT>>,
                        <<(<<u - 1, v + h - 1>>), BOTTOM_RIGHT>>,
                        <<(<<u - 1, v>>), TOP_RIGHT>> >>
            /\ this \in Rects

\* C19 witness: the suggestions of a placed rectangle with different sides
\* have been returned
C19_Witness ==
    /\ pc = "suggest_positions" /\ ~IsUvMcCube(this)
    /\ this.size[1] > this.size[2]
    /\ this.uv[1] > this.uv[2]
    /\ this.uv[2] > 0

\* C20: UvMcCube.suggest_positions returns exactly 12 suggestions, in this
\* order: entries 0, 5, 6 of the 8 suggestions of the right face, then entries
\* 0, 6, 7 of the top face, then 1, 2, 3 of the bottom face, then 1, 3, 4 of
\* the back face; the front and the left face contribute none.  For a cube
\* (w, d, h) at (u, v) these are the twelve points written out below.
C20_TwelveSuggestions ==
    (pc = "suggest_positions" /\ IsUvMcCube(this)) =>
        LET R == UvBox_suggest_positions(this.right)
            T == UvBox_suggest_positions(this.top)
            B == UvBox_suggest_positions(this.bottom)
            K == UvBox_suggest_positions(this.back)
            u == this.uv[1]
            v == this.uv[2]
            w == this.width
            d == this.depth
            h == this.height
        IN  /\ Len(out) = 12
            /\ out = <<R[1], R[6], R[7], T[1], T[7], T[8],
                       B[2], B[3], B[4], K[2], K[4], K[5]>>
            /\ out = << <<(<<u, v + d - 1>>), BOTTOM_LEFT>>,
                        <<(<<u, v + d + h>>), TOP_LEFT>>,
                        <<(<<u - 1, v + d + h - 1>>), BOTTOM_RIGHT>>,
                        <<(<<u + d, v - 1>>), BOTTOM_LEFT>>,
                        <<(<<u + d - 1, v + d - 1>>), BOTTOM_RIGHT>>,
                        <<(<<u + d - 1, v>>), TOP_RIGHT>>,
                        <<(<<u + d + 2 * w - 1, v - 1>>), BOTTOM_RIGHT>>,
                        <<(<<u + d + 2 * w, v>>), TOP_LEFT>>,
                        <<(<<u + d + 2 * w, v + d - 1>>), BOTTOM_LEFT>>,
                        <<(<<u + 2 * d + 2 * w - 1, v + d - 1>>), BOTTOM_RIGHT>>,
                        <<(<<u + 2 * d + 2 * w, v + d + h - 1>>), BOTTOM_LEFT>>,
                        <<(<<u + 2 * d + 2 * w - 1, v + d + h>>), TOP_RIGHT>> >>

\* C20 witness: the suggestions of a cube whose depth differs from its width
\* and from its height, placed away from both axes, have been returned
C20_Witness ==
    /\ pc = "suggest_positions" /\ IsUvMcCube(this)
    /\ this.width # this.depth
    /\ this.depth # this.height
    /\ this.uv[1] > 0 /\ this.uv[2] > 0 /\ this.uv[1] # this.uv[2]

\* the number of times the suggestion list of the box r was appended to the
\* queue by the running or last call: once when r was accepted, once when r
\* became an author
Enqueued(r) ==
    Cardinality({i \in DOMAIN Accepted : Accepted[i] = r})
        + Cardinality({i \in DOMAIN authors : authors[i] = r})

\* C21: during one plan_uv call the suggestion list of any given box is
\* appended to the suggestion queue at most once, whether it is appended when
\* the box is accepted or when another box first collides with it.
C21_EnqueuedOnce ==
    \A r \in DOMAIN heap : Enqueued(r) <= 1

\* a pass of the while loop comes next in the running call
Scanning == pc = "plan_uv" /\ MoreSuggestions(PlanState)

\* the suggestion that the pass that comes next scans
Scanned == suggestions[suggestion_i + 2]

\* the point lies outside the texture, its right and lower border counted
\* as outside
OutOrOnBorder(point) ==
    \/ point[1] < 0
    \/ point[2] < 0
    \/ point[1] >= width
    \/ height # None /\ point[2] >= height[1]

\* the point lies outside the texture, its right and lower border counted
\* as inside
BeyondBorder(point) ==
    \/ point[1] < 0
    \/ point[2] < 0
    \/ point[1] > width
    \/ height # None /\ point[2] > height[1]

\* the pass that comes next takes the scanned suggestion out of the queue
\* and leaves the other entries in their order
ScannedLeaves ==
    LET next == plan_uv_step(PlanState, width, height)
        rest == Del(suggestions, suggestion_i + 1)
    IN  /\ Len(next.suggestions) >= Len(rest)
        /\ SubSeq(next.suggestions, 1, Len(rest)) = rest

Works(b, s) ==
    LET moved == apply_suggestion(heap[b], s)
    IN  /\ ~_is_out_of_bounds(moved.uv, moved.size, width, height)
        /\ \A m \in Range(mapped_boxes) : ~UvMcCube_collides(moved, heap[m])

\* the initial suggestion and the suggestions of every placed box, pre-mapped
\* or accepted by the running or last call
Candidates ==
    {<<(<<0, 0>>), TOP_LEFT>>} \cup
    UNION {Range(UvMcCube_suggest_positions(heap[m])) : m \in Range(mapped_boxes)}

\* C23: plan_uv fails on a box only when no candidate adjacent to placed
\* geometry works: when plan_uv returns False on a box, neither the initial
\* (0,0) TOP_LEFT suggestion nor any suggestion of any placed box (pre-mapped
\* or accepted earlier in the call) gives that box an in-bounds placement
\* that collides with no placed box.
C23_FailsOnlyWithoutCandidate ==
    Returned(FALSE) =>
        \A s \in Candidates : ~Works(unmapped_boxes[box_i], s)

\* the bounding width of the box r as the call found it
BoundingWidth(r) == 2 * heap0[r].depth + 2 * heap0[r].width

\* C24: plan_uv attempts the unmapped boxes in non-increasing order of
\* bounding width 2*depth + 2*width, and a box instance that occurs several
\* times in the input list (a shared group box) is attempted, and accepted,
\* at most once per call: the list that the for loop walks holds every
\* unmapped input box once, widest first, and the boxes accepted are its
\* first entries, in its order.
C24_WidestFirstOnce ==
    (pc = "plan_uv" \/ (pc = "idle" /\ ret # None)) =>
        /\ Range(unmapped_boxes) = {r \in Range(ResultBoxes) : ~heap0[r].is_mapped}
        /\ \A i, j \in DOMAIN unmapped_boxes :
            i < j => /\ unmapped_boxes[i] # unmapped_boxes[j]
                     /\ BoundingWidth(unmapped_boxes[i]) >= BoundingWidth(unmapped_boxes[j])
        /\ Len(Accepted) <= Len(unmapped_boxes)
        /\ Accepted = SubSeq(unmapped_boxes, 1, Len(Accepted))
        /\ pc = "plan_uv" => Len(Accepted) = box_i - 1

\* C24 witness: a call returned True on a list in which one box occurs twice
\* (two objects of one uv group and size) before a wider box, and the call
\* accepted the wider box first and the shared box, once, after it
C24_Witness ==
    /\ Returned(TRUE)
    /\ Len(ResultBoxes) = 3
    /\ ResultBoxes[1] = ResultBoxes[2]
    /\ Accepted = <<ResultBoxes[3], ResultBoxes[1]>>
    /\ BoundingWidth(ResultBoxes[3]) > BoundingWidth(ResultBoxes[1])

\* the place where the box r first appears in the list handed to plan_uv
FirstAppears(r) ==
    CHOOSE n \in DOMAIN ResultBoxes :
        /\ ResultBoxes[n] = r
        /\ \A m \in DOMAIN ResultBoxes : ResultBoxes[m] = r => n <= m

\* C25: among unmapped boxes of equal bounding width, plan_uv attempts
\* placement in the order in which the boxes first appear in the input list,
\* the order of the objects that get_uv_mc_cubes keeps in its result.
C25_TiesInInputOrder ==
    (pc = "plan_uv" \/ (pc = "idle" /\ ret # None)) =>
        \A i, j \in DOMAIN unmapped_boxes :
            (i < j /\ BoundingWidth(unmapped_boxes[i]) = BoundingWidth(unmapped_boxes[j]))
                => FirstAppears(unmapped_boxes[i]) < FirstAppears(unmapped_boxes[j])

\* the box that the running call is trying, moved to the scanned suggestion
Tried == apply_suggestion(heap[unmapped_boxes[box_i]], Scanned)

\* the anchor of the scanned suggestion lies in the texture, and the tried
\* box at it is out of bounds or collides with a placed box
TriedInVain ==
    /\ ~_is_out_of_bounds(Scanned[1], <<0, 0>>, width, height)
    /\ \/ _is_out_of_bounds(Tried.uv, Tried.size, width, height)
       \/ \E m \in Range(mapped_boxes) : UvMcCube_collides(Tried, heap[m])

\* C26: a suggestion leaves the queue of plan_uv only when its anchor point
\* was found out of bounds when scanned or when a box was accepted with it,
\* and then the other entries keep their order. A suggestion at which the
\* tried box was out of bounds or collided with a placed box stays in the
\* queue, every entry at its position, new entries only at the end, and the
\* same box goes on with the next entry. The else branch of the loop leaves
\* the queue as it is.
C26_QueueKeepsSuggestions ==
    pc = "plan_uv" =>
        LET next == plan_uv_step(PlanState, width, height)
            accepted == next.box_i = box_i + 1
        IN  IF ~Scanning THEN next.suggestions = suggestions
            ELSE /\ TriedInVain =>
                    /\ Len(next.suggestions) >= Len(suggestions)
                    /\ SubSeq(next.suggestions, 1, Len(suggestions)) = suggestions
                    /\ next.suggestion_i = suggestion_i + 1
                    /\ next.box_i = box_i
                    /\ ~next.returned
                 /\ ~TriedInVain =>
                    /\ ScannedLeaves
                    /\ \/ _is_out_of_bounds(Scanned[1], <<0, 0>>, width, height)
                       \/ accepted /\ next.heap[unmapped_boxes[box_i]].is_mapped

\* C26 witness: the second or a later box of a call is about to be tried at
\* a suggestion with its anchor in the texture, where it collides with a
\* placed box, and there are entries after that suggestion in the queue
C26_Witness ==
    /\ Scanning
    /\ box_i >= 2
    /\ ~_is_out_of_bounds(Scanned[1], <<0, 0>>, width, height)
    /\ ~_is_out_of_bounds(Tried.uv, Tried.size, width, height)
    /\ \E m \in Range(mapped_boxes) : UvMcCube_collides(Tried, heap[m])
    /\ Len(suggestions) > suggestion_i + 2

\* the box r was made with a persisted placement: it is an obstacle from the
\* start and no call of plan_uv accepts it
PreMapped(r) ==
    \E n \in DOMAIN objects :
        result[n] = r /\ read_existing_uvs /\ objects[n].mc_uv # None

\* a face of the box a and a face of the box b share a cell
FacesOverlap(a, b) ==
    \E i, j \in 1..6 : UvBox_collides(Faces(heap[a])[i], Faces(heap[b])[j])

\* C27: at every point after a box is accepted by plan_uv, none of its six
\* face rectangles overlaps a face rectangle of any other placed box,
\* neither of a box accepted earlier or later (in this or another call) nor
\* of a pre-mapped box given as an obstacle; pre-mapped boxes are not checked
\* against each other.
C27_FacesNeverOverlap ==
    \A a, b \in DOMAIN heap :
        (a # b /\ heap[a].is_mapped /\ heap[b].is_mapped /\ ~PreMapped(a))
            => ~FacesOverlap(a, b)

\* C27 witness: a call returned True having accepted a box whose bounding
\* rectangle overlaps the bounding rectangle of a pre-mapped box: the faces
\* of the two interlock without sharing a cell
C27_Witness ==
    /\ Returned(TRUE)
    /\ \E a, c \in DOMAIN heap :
        /\ heap[a].is_mapped /\ ~PreMapped(a)
        /\ PreMapped(c)
        /\ BoundsOverlap(a, c)

\* the boxes that an earlier call of plan_uv accepted: mapped when the
\* running or last call began, and not made with a persisted placement
AcceptedBefore == {r \in DOMAIN heap0 : heap0[r].is_mapped /\ ~PreMapped(r)}

\* C28: plan_uv does not roll back on failure. No pass of the call, the
\* failing else branch included, moves or unmaps a placed box, so when the
\* call returns False every box it accepted is mapped, at its accepted
\* position inside the texture; in a later call on the same boxes the boxes
\* accepted before are among the obstacles, are not moved, and only the
\* boxes still unmapped are tried.
C28_NoRollback ==
    /\ pc = "plan_uv" =>
        LET next == plan_uv_step(PlanState, width, height)
        IN  \A r \in Range(mapped_boxes) :
                /\ next.heap[r] = heap[r]
                /\ r \in Range(next.mapped_boxes)
    /\ Returned(FALSE) =>
        /\ Accepted = SubSeq(unmapped_boxes, 1, box_i - 1)
        /\ \A i \in DOMAIN Accepted :
            /\ heap[Accepted[i]].is_mapped
            /\ ~_is_out_of_bounds(heap[Accepted[i]].uv, heap[Accepted[i]].size,
                                  width, height)
    /\ (pc = "plan_uv" \/ (pc = "idle" /\ ret # None)) =>
        /\ \A r \in AcceptedBefore :
            /\ r \in Range(mapped_boxes)
            /\ r \notin Range(unmapped_boxes)
            /\ heap[r] = heap0[r]
        /\ Range(unmapped_boxes) = {r \in Range(boxes) : ~heap0[r].is_mapped}

\* C28 witness: an earlier call returned False after it had accepted a box
\* (a box accepted before and a box still unmapped were handed to the last
\* call), and the last call, on a larger texture, accepted the rest and
\* returned True
C28_Witness ==
    /\ Returned(TRUE)
    /\ AcceptedBefore # {}
    /\ Accepted # << >>
    /\ \A r \in AcceptedBefore : heap[r].uv = heap0[r].uv

\* the running or last call has no max height, none of its input boxes was
\* mapped when it began, and none is wider than the max width (the
\* dimensions of a cube made by get_uv_mc_cubes are positive)
AllFreshAndFit ==
    /\ height = None
    /\ \A r \in Range(boxes) :
        /\ ~heap0[r].is_mapped
        /\ heap0[r].width > 0 /\ heap0[r].depth > 0 /\ heap0[r].height > 0
        /\ BoundingWidth(r) <= width

\* C29: when no max height is given, no input box is pre-mapped, all
\* dimensions are positive and every box's bounding width 2*depth + 2*width
\* is at most the max width, plan_uv returns True for every input list and
\* every processing order of equal-width boxes: the queue is never exhausted
\* for a box, and at the return every box is mapped.
C29_FitsWithoutMaxHeight ==
    AllFreshAndFit =>
        /\ pc = "plan_uv" => MoreSuggestions(PlanState)
        /\ (pc = "idle" /\ ret # None) =>
            /\ ret = <<TRUE>>
            /\ \A r \in Range(boxes) : heap[r].is_mapped

\* C29 witness: a call without max height returned on three fresh boxes, the
\* widest as wide as the texture, so that every box lies below the one before
C29_Witness ==
    /\ pc = "idle" /\ ret # None
    /\ AllFreshAndFit
    /\ Len(boxes) = 3
    /\ BoundingWidth(boxes[1]) = width
    /\ BoundingWidth(boxes[3]) < width
    /\ heap[boxes[3]].uv[2] > heap[boxes[2]].uv[2]

\* C30: considering only box construction and plan_uv calls, before and
\* after every plan_uv call each box whose is_mapped flag is False is at
\* position (0,0), its faces at their offsets from (0,0): tentative
\* positions tried during a call never remain on a box that was not accepted.
C30_UnmappedAtOrigin ==
    pc = "idle" =>
        \A r \in DOMAIN heap :
            ~heap[r].is_mapped =>
                /\ heap[r].uv = <<0, 0>>
                /\ FacesAtOffsets(heap[r])

\* C30 witness: the last of several calls returned False on a box that it
\* had tried at two or more suggestions that stayed in the queue, among
\* them places next to a box accepted by an earlier call; the box is
\* unmapped at the return
C30_Witness ==
    /\ Returned(FALSE)
    /\ todo = << >>
    /\ AcceptedBefore # {}
    /\ suggestion_i >= 1
    /\ \E r \in DOMAIN heap : ~heap[r].is_mapped

====
